---- MODULE Spec2Model ----
(***************************************************************************)
(* Model of the /deploy handler of src/main.py.                            *)
(*                                                                         *)
(* One request is one run of deploy(): it issues blocking calls to the     *)
(* hosting provider one after the other.  An action of the model is one    *)
(* external call together with the handler code that runs up to the next   *)
(* external call (or up to the response).  Several server workers may run  *)
(* the handler at the same time, so the calls of different requests        *)
(* interleave; the provider is the only state the requests share.          *)
(*                                                                         *)
(* The provider is outside the repository.  It is modelled by its state    *)
(* (does the repository exist, the revision of index.html, is pages on)    *)
(* and, at every call, by the set of outcomes the call can have in that    *)
(* state: the regular one and the failures the handler distinguishes.      *)
(***************************************************************************)
EXTENDS Integers, Sequences, FiniteSets, TLC

\* ---------------------------------------------------------------- bounds
MaxReq == 2
MaxHtmlLen == 1

Reqs == 1..MaxReq
RepoNames == {"demo-site"}
Chars == {" ", "a"}

VARIABLES pc, req, existing, calls, response, provider

vars == <<pc, req, existing, calls, response, provider>>

\* ------------------------------------------------------------ inputs
RECURSIVE SeqsOf(_, _)
SeqsOf(S, n) ==
  IF n = 0 THEN {<<>>}
  ELSE LET shorter == SeqsOf(S, n - 1)
       IN  shorter \cup {Append(s, c) : s \in {t \in shorter : Len(t) = n - 1}, c \in S}

Htmls == SeqsOf(Chars, MaxHtmlLen)

NoReq == [repoName |-> "", html |-> <<>>]

\* DeployRequest: the body of POST /deploy
DeployRequest(name, html) == [repoName |-> name, html |-> html]

\* str.strip(): drop leading and trailing whitespace
RECURSIVE LStrip(_)
LStrip(s) == IF s # <<>> /\ Head(s) = " " THEN LStrip(Tail(s)) ELSE s

RECURSIVE RStrip(_)
RStrip(s) ==
  IF s # <<>> /\ s[Len(s)] = " " THEN RStrip(SubSeq(s, 1, Len(s) - 1)) ELSE s

Strip(s) == RStrip(LStrip(s))

\* `not html.strip()`
IsBlankNoStrip(html) == html = <<>>
IsBlank(html) == Strip(html) = <<>>

\* ------------------------------------------------------------ responses
NoResp == [status |-> 0, kind |-> "none", msg |-> "", code |-> 0, body |-> ""]

\* raise HTTPException(status_code, detail): the body is {"detail": ...};
\* detail is the message with the upstream code and text it interpolates
HTTPException(status, kind, msg, code, body) ==
  [status |-> status, kind |-> kind, msg |-> msg, code |-> code, body |-> body]

ValidationError == HTTPException(400, "ValidationError", "Empty HTML content provided", 0, "")

AuthErrorForbidden == HTTPException(403, "AuthError", "Invalid GitHub token", 0, "")
AuthError == HTTPException(401, "AuthError", "Invalid GitHub token", 0, "")

RepoAccessError(e) == HTTPException(400, "RepoAccessError", "Repo access error", e.status, e.exc)

PublishError(e) == HTTPException(500, "PublishError", "Failed to push index.html", e.status, e.exc)

PagesEnableErrorNoBody(resp) ==
  HTTPException(500, "PagesEnableError", "Enabling Pages failed", resp.status, "")
PagesEnableError(resp) ==
  HTTPException(500, "PagesEnableError", "Enabling Pages failed", resp.status, resp.text)

PagesFetchError(info) ==
  HTTPException(500, "PagesFetchError", "Fetching Pages info failed", info.status, info.text)

NoHtmlUrlError == HTTPException(500, "PagesFetchError", "No html_url in Pages response", 0, "")

\* return {"url": html_url}
Success(html_url) == [status |-> 200, kind |-> "ok", msg |-> "", code |-> 0, body |-> html_url]

\* an exception that leaves deploy() uncaught: the framework answers with its
\* generic 500 "Internal Server Error", which is not a {detail} body
Unhandled(e) ==
  [status |-> 500, kind |-> "Unhandled", msg |-> "Internal Server Error", code |-> e.status, body |-> e.exc]

\* --------------------------------------------------------- call outcomes
\* an outcome of a client-library call: exc = "none" when it returns
Ok(status) == [exc |-> "none", status |-> status]
UnknownObjectException == [exc |-> "UnknownObjectException", status |-> 404]
GithubException(status) == [exc |-> "GithubException", status |-> status]
OtherException == [exc |-> "Exception", status |-> 0]

\* UnknownObjectException is a subclass of GithubException
IsGithubException(e) == e.exc \in {"GithubException", "UnknownObjectException"}
IsUnknownObject(e) == e.exc = "UnknownObjectException"

\* the record of one external call: the repository it addresses, the revision
\* identifier it sends or receives, the status and the text of the answer
\* (status 0: the call raised without an answer)
Call(op, repo, sha, status, text) ==
  [op |-> op, repo |-> repo, sha |-> sha, status |-> status, text |-> text]

\* calls[r] is the history of the external calls of request r, in issue order
Issue(r, c) == calls' = [calls EXCEPT ![r] = Append(@, c)]

\* deploy() ends, by return or by raise: the response goes out and the frame
\* of the call (req, html, existing, ...) is gone
Respond(r, resp) ==
  /\ response' = [response EXCEPT ![r] = resp]
  /\ pc' = [pc EXCEPT ![r] = "done"]
  /\ req' = [req EXCEPT ![r] = NoReq]
  /\ existing' = [existing EXCEPT ![r] = 0]

\* deploy() goes on to its next call
Goto(r, label) ==
  /\ pc' = [pc EXCEPT ![r] = label]
  /\ UNCHANGED <<response, req, existing>>

\* ------------------------------------------------------------ provider
NoSuchRepo == [exists |-> FALSE, sha |-> 0, pages |-> FALSE]
InitRepoStates ==
  { NoSuchRepo, [exists |-> TRUE, sha |-> 1, pages |-> FALSE] }

\* the body of GET .../pages has no html_url field (None in the handler)
NoUrl == "None"

\* the public URL the provider reports for a repository of the user
PagesUrl(name) ==
  CASE name = "demo-site" -> "https://user.github.io/demo-site/"
    [] OTHER -> "https://user.github.io/"

Init ==
  /\ pc = [r \in Reqs |-> "idle"]
  /\ req = [r \in Reqs |-> NoReq]
  /\ existing = [r \in Reqs |-> 0]
  /\ calls = [r \in Reqs |-> <<>>]
  /\ response = [r \in Reqs |-> NoResp]
  /\ provider \in [RepoNames -> InitRepoStates]

\* lines 26-31: the body of POST /deploy is parsed into a DeployRequest
Receive(r, name, html) ==
  /\ pc[r] = "idle"
  /\ req' = [req EXCEPT ![r] = DeployRequest(name, html)]
  /\ pc' = [pc EXCEPT ![r] = "validate"]
  /\ UNCHANGED <<existing, calls, response, provider>>

\* lines 32-34
Validate(r) ==
  /\ pc[r] = "validate"
  /\ IF IsBlank(req[r].html)
       THEN Respond(r, ValidationError)
       ELSE Goto(r, "get_user")
  /\ UNCHANGED <<calls, provider>>

\* lines 37-43: g.get_user(), taken as the identity lookup, inside the try of
\* line 38; any exception is answered 401
GetUserHandler(r, e) ==
  IF e.exc = "none" THEN Goto(r, "get_repo") ELSE Respond(r, AuthError)

GetUserOutcomes == {Ok(200), GithubException(401)}

GetUser(r) ==
  /\ pc[r] = "get_user"
  /\ \E e \in GetUserOutcomes :
       /\ Issue(r, Call("get_user", "", 0, e.status, ""))
       /\ GetUserHandler(r, e)
  /\ UNCHANGED provider

\* lines 44-55: user.get_repo(repo_name); only GithubException is caught,
\* status 404 leads to create_repo, any other status is answered 400.
\* time.sleep(2) of line 55 changes no state: it only lets the calls of other
\* requests come in between, as they may between any two actions
GetRepoHandler(r, e) ==
  IF e.exc = "none" THEN Goto(r, "get_contents")
  ELSE IF IsGithubException(e)
    THEN IF e.status = 404 THEN Goto(r, "create_repo")
                           ELSE Respond(r, RepoAccessError(e))
    ELSE Respond(r, Unhandled(e))

GetRepoOutcomes(repo) ==
  IF repo.exists THEN {Ok(200), GithubException(403), OtherException}
                 ELSE {UnknownObjectException, GithubException(403), OtherException}

GetRepo(r) ==
  /\ pc[r] = "get_repo"
  /\ \E e \in GetRepoOutcomes(provider[req[r].repoName]) :
       /\ Issue(r, Call("get_repo", req[r].repoName, 0, e.status, ""))
       /\ GetRepoHandler(r, e)
  /\ UNCHANGED provider

\* line 51: user.create_repo(name=repo_name, auto_init=True), called inside
\* the except clause of line 49, so its own exception is caught by nothing
AutoInitOff == FALSE
AutoInit == TRUE

CreateRepoHandler(r, e) ==
  IF e.exc = "none" THEN Goto(r, "get_contents") ELSE Respond(r, Unhandled(e))

CreateRepoOutcomes(repo) ==
  IF repo.exists THEN {GithubException(422)}
                 ELSE {Ok(201), GithubException(422)}

CreateRepo(r) ==
  /\ pc[r] = "create_repo"
  /\ \E e \in CreateRepoOutcomes(provider[req[r].repoName]) :
       /\ Issue(r, Call("create_repo", req[r].repoName, 0, e.status, IF AutoInit THEN "auto_init" ELSE ""))
       /\ CreateRepoHandler(r, e)
       /\ provider' = IF e.exc = "none"
                        THEN [provider EXCEPT ![req[r].repoName] =
                                [exists |-> TRUE, sha |-> 0, pages |-> FALSE]]
                        ELSE provider

\* lines 58-59, 67, 74-75: existing = repo.get_contents("index.html", ref="main")
GetContentsHandler(r, e, sha) ==
  IF e.exc = "none"
    THEN /\ existing' = [existing EXCEPT ![r] = sha]
         /\ pc' = [pc EXCEPT ![r] = "update_file"]
         /\ UNCHANGED <<response, req>>
  ELSE IF IsUnknownObject(e) THEN Goto(r, "create_file")
  ELSE Respond(r, PublishError(e))

GetContentsOutcomes(repo) ==
  IF repo.exists /\ repo.sha > 0 THEN {Ok(200), GithubException(500)}
                                 ELSE {UnknownObjectException, GithubException(500)}

GetContents(r) ==
  /\ pc[r] = "get_contents"
  /\ LET repo == provider[req[r].repoName] IN
     \E e \in GetContentsOutcomes(repo) :
       LET sha == IF e.exc = "none" THEN repo.sha ELSE 0 IN
       /\ Issue(r, Call("get_contents", req[r].repoName, sha, e.status, ""))
       /\ GetContentsHandler(r, e, sha)
  /\ UNCHANGED provider

\* line 64: sha=existing.sha
UpdateShaCurrent(r) == provider[req[r].repoName].sha
UpdateSha(r) == existing[r]

\* lines 60-67, 74-75: repo.update_file(...) runs inside the same try as the
\* lookup, so its UnknownObjectException reaches the clause of line 67
UpdateFileHandlerSwallow(r, e) ==
  IF IsUnknownObject(e) THEN Goto(r, "create_file") ELSE Goto(r, "pages_enable")
UpdateFileHandler(r, e) ==
  IF e.exc = "none" THEN Goto(r, "pages_enable")
  ELSE IF IsUnknownObject(e) THEN Goto(r, "create_file")
  ELSE Respond(r, PublishError(e))

\* the provider accepts an update only with the current revision identifier
\* and answers a stale one with 409; it may answer 404 (the token may not
\* write to the repository), and then the create_file that follows fails too
UpdateFileOutcomes(repo, sha) ==
  IF repo.exists /\ repo.sha > 0 /\ repo.sha = sha
    THEN {Ok(200), UnknownObjectException, GithubException(500)}
    ELSE {GithubException(409), UnknownObjectException}

UpdateFile(r) ==
  /\ pc[r] = "update_file"
  /\ LET repo == provider[req[r].repoName]
         sha == UpdateSha(r) IN
     \E e \in UpdateFileOutcomes(repo, sha) :
       /\ Issue(r, Call("update_file", req[r].repoName, sha, e.status, ""))
       /\ UpdateFileHandler(r, e)
       /\ provider' = IF e.exc = "none"
                        THEN [provider EXCEPT ![req[r].repoName].sha = @ + 1]
                        ELSE provider

\* lines 68-73: repo.create_file(...), called inside the except clause of
\* line 67, so the clause of line 74 does not catch its exception
CreateFileHandler(r, e) ==
  IF e.exc = "none" THEN Goto(r, "pages_enable") ELSE Respond(r, Unhandled(e))

CreateFileOutcomes(repo) ==
  IF repo.exists /\ repo.sha = 0 THEN {Ok(201), GithubException(500)}
                                 ELSE {GithubException(422)}

CreateFile(r) ==
  /\ pc[r] = "create_file"
  /\ \E e \in CreateFileOutcomes(provider[req[r].repoName]) :
       /\ Issue(r, Call("create_file", req[r].repoName, 0, e.status, ""))
       /\ CreateFileHandler(r, e)
       /\ provider' = IF e.exc = "none"
                        THEN [provider EXCEPT ![req[r].repoName].sha = 1]
                        ELSE provider

\* line 85: resp.status_code not in (201, 204)
EnableOkLenient(status) == status \in {201, 204, 409}
EnableOk(status) == status \in {201, 204}

\* lines 84-89
PagesEnableHandler(r, resp) ==
  IF resp.exc # "none" THEN Respond(r, Unhandled(resp))
  ELSE IF ~EnableOk(resp.status) THEN Respond(r, PagesEnableError(resp))
  ELSE Goto(r, "pages_fetch")

\* POST .../pages answers 409 when pages is already enabled
PagesEnableOutcomes(repo) ==
  {[exc |-> "Exception", status |-> 0, text |-> ""]} \cup
  (IF repo.pages
     THEN {[exc |-> "none", status |-> 409, text |-> "already enabled"]}
     ELSE [exc : {"none"}, status : {201, 204}, text : {""}] \cup
          {[exc |-> "none", status |-> 422, text |-> "invalid"]})

PagesEnable(r) ==
  /\ pc[r] = "pages_enable"
  /\ \E resp \in PagesEnableOutcomes(provider[req[r].repoName]) :
       /\ Issue(r, Call("pages_enable", req[r].repoName, 0, resp.status, resp.text))
       /\ PagesEnableHandler(r, resp)
       /\ provider' = IF resp.status \in {201, 204}
                        THEN [provider EXCEPT ![req[r].repoName].pages = TRUE]
                        ELSE provider

\* line 93: info.status_code != 200
FetchOk(status) == status = 200

\* line 99: `not html_url` holds for a missing field (None) and for ""
HasUrlNotNone(html_url) == html_url # NoUrl
HasUrl(html_url) == html_url \notin {NoUrl, ""}

\* lines 92-102
PagesFetchHandler(r, info) ==
  IF info.exc # "none" THEN Respond(r, Unhandled(info))
  ELSE IF ~FetchOk(info.status) THEN Respond(r, PagesFetchError(info))
  ELSE IF ~HasUrl(info.html_url) THEN Respond(r, NoHtmlUrlError)
  ELSE Respond(r, Success(info.html_url))

\* GET .../pages: the call raises, or answers 200 with a JSON body whose
\* html_url is the site's URL, empty or missing, or answers 404
PagesFetchOutcomes(name) ==
  {[exc |-> "Exception", status |-> 0, text |-> "", html_url |-> NoUrl]} \cup
  [exc : {"none"}, status : {200}, text : {""}, html_url : {PagesUrl(name), "", NoUrl}] \cup
  {[exc |-> "none", status |-> 404, text |-> "Not Found", html_url |-> NoUrl]}

PagesFetch(r) ==
  /\ pc[r] = "pages_fetch"
  /\ \E info \in PagesFetchOutcomes(req[r].repoName) :
       /\ Issue(r, Call("pages_fetch", req[r].repoName, 0, info.status, info.html_url))
       /\ PagesFetchHandler(r, info)
  /\ UNCHANGED provider

Next ==
  \E r \in Reqs :
    \/ \E name \in RepoNames, html \in Htmls : Receive(r, name, html)
    \/ Validate(r)
    \/ GetUser(r)
    \/ GetRepo(r)
    \/ CreateRepo(r)
    \/ GetContents(r)
    \/ UpdateFile(r)
    \/ CreateFile(r)
    \/ PagesEnable(r)
    \/ PagesFetch(r)

Spec == Init /\ [][Next]_vars

\* ------------------------------------------------------------ properties
Idx(r) == DOMAIN calls[r]
Count(r, op) == Cardinality({i \in Idx(r) : calls[r][i].op = op})
Issued(r, op, status) == \E i \in Idx(r) : calls[r][i].op = op /\ calls[r][i].status = status
Done(r) == pc[r] = "done"
Succeeded(r) == Done(r) /\ response[r].status = 200
WhitespaceOnly(html) == \A i \in 1..Len(html) : html[i] = " "

\* C1: a request whose html is empty or whitespace-only leaves validation
\* with the 400 ValidationError response and an empty history of external
\* calls, and a request answered with ValidationError has issued no call
C1_BlankHtmlRejected ==
  [][\A r \in Reqs :
       /\ (pc[r] = "validate" /\ WhitespaceOnly(req[r].html) /\ pc'[r] # "validate")
            => /\ pc'[r] = "done"
               /\ response'[r].status = 400
               /\ response'[r].kind = "ValidationError"
               /\ calls'[r] = <<>>
       /\ response'[r].kind = "ValidationError" => calls'[r] = <<>>]_vars

C1_Witness ==
  \E r \in Reqs : Done(r) /\ response[r].kind = "ValidationError" /\ calls[r] = <<>>

\* the position of a call in the fixed sequence of steps
Rank(op) ==
  CASE op = "get_user" -> 1
    [] op = "get_repo" -> 2
    [] op = "create_repo" -> 3
    [] op = "get_contents" -> 4
    [] op = "update_file" -> 5
    [] op = "create_file" -> 6
    [] op = "pages_enable" -> 7
    [] op = "pages_fetch" -> 8

Ordered(r) ==
  \A i, j \in Idx(r) : i < j => Rank(calls[r][i].op) < Rank(calls[r][j].op)

\* the call did what its step needs; not-found at a lookup is the signal to
\* create, so the step goes on
StepOk(c) ==
  CASE c.op = "get_user" -> c.status = 200
    [] c.op = "get_repo" -> c.status \in {200, 404}
    [] c.op = "create_repo" -> c.status = 201
    [] c.op = "get_contents" -> c.status \in {200, 404}
    [] c.op = "update_file" -> c.status = 200
    [] c.op = "create_file" -> c.status = 201
    [] c.op = "pages_enable" -> c.status \in {201, 204}
    [] c.op = "pages_fetch" -> c.status = 200

\* C2: the calls of a request are issued in the order identity lookup,
\* repository lookup, repository creation, index.html lookup, file update or
\* create, pages enable, pages fetch, none of them twice; a 200 response is
\* given only after every step was made and succeeded, and its url is the
\* html_url of the request's pages fetch
C2_OrderAndSuccess ==
  \A r \in Reqs :
    /\ Ordered(r)
    /\ response[r].status = 200 =>
         /\ \A i \in Idx(r) : StepOk(calls[r][i])
         /\ \A op \in {"get_user", "get_repo", "get_contents", "pages_enable", "pages_fetch"} :
              Count(r, op) = 1
         /\ Count(r, "create_repo") = (IF Issued(r, "get_repo", 404) THEN 1 ELSE 0)
         /\ Count(r, "update_file") + Count(r, "create_file") = 1
         /\ calls[r][Len(calls[r])].op = "pages_fetch"
         /\ response[r].body = calls[r][Len(calls[r])].text
         /\ response[r].body \notin {"", NoUrl}

C2_Witness ==
  \E r \in Reqs : Succeeded(r) /\ response[r].body = PagesUrl("demo-site") /\ Len(calls[r]) = 7

\* C3 as stated: a successful deploy whose repository lookup was answered
\* not-found has issued one create_repo (auto-initialised), one create_file
\* and no update_file
C3_AsStated ==
  \A r \in Reqs :
    (Succeeded(r) /\ Issued(r, "get_repo", 404)) =>
      /\ Count(r, "create_repo") = 1
      /\ \A i \in Idx(r) : calls[r][i].op = "create_repo" => calls[r][i].text = "auto_init"
      /\ Count(r, "create_file") = 1
      /\ Count(r, "update_file") = 0

\* C3 amended: a successful deploy whose repository lookup was answered
\* not-found has issued one create_repo (auto-initialised) and one file write:
\* a create_file and no update_file when its index.html lookup was answered
\* not-found, an update_file and no create_file when another request had
\* created index.html by then
C3_CreatedRepoOneWrite ==
  \A r \in Reqs :
    (Succeeded(r) /\ Issued(r, "get_repo", 404)) =>
      /\ Count(r, "create_repo") = 1
      /\ \A i \in Idx(r) : calls[r][i].op = "create_repo" => calls[r][i].text = "auto_init"
      /\ Count(r, "create_file") + Count(r, "update_file") = 1
      /\ Issued(r, "get_contents", 404) => Count(r, "create_file") = 1
      /\ Issued(r, "get_contents", 200) => Count(r, "update_file") = 1

C3_Witness ==
  \E r \in Reqs :
    /\ Succeeded(r)
    /\ Issued(r, "get_repo", 404)
    /\ Issued(r, "get_contents", 404)
    /\ Issued(r, "create_file", 201)

\* C4: a successful deploy on a repository that exists with its index.html
\* (both lookups of the request found them) has issued one update_file,
\* carrying the sha its own index.html lookup returned, and no create_repo
\* and no create_file
C4_UpdateCarriesSha ==
  \A r \in Reqs :
    (Succeeded(r) /\ Issued(r, "get_repo", 200) /\ Issued(r, "get_contents", 200)) =>
      /\ Count(r, "update_file") = 1
      /\ Count(r, "create_repo") = 0
      /\ Count(r, "create_file") = 0
      /\ \A i, j \in Idx(r) :
           (calls[r][i].op = "get_contents" /\ calls[r][j].op = "update_file")
             => (i < j /\ calls[r][i].sha > 0 /\ calls[r][j].sha = calls[r][i].sha)

C4_Witness ==
  \E r \in Reqs :
    /\ Succeeded(r)
    /\ Issued(r, "get_repo", 200)
    /\ Issued(r, "get_contents", 200)
    /\ Issued(r, "update_file", 200)

\* C5: after a pages-enable answer with a status outside {201, 204} the
\* request issues no pages fetch and ends with the 500 PagesEnableError whose
\* detail carries that status and the body of the answer
C5_EnableFailureStops ==
  \A r \in Reqs : \A i \in Idx(r) :
    (calls[r][i].op = "pages_enable" /\ calls[r][i].status \notin {0, 201, 204}) =>
      /\ Count(r, "pages_fetch") = 0
      /\ Done(r)
      /\ response[r].status = 500
      /\ response[r].kind = "PagesEnableError"
      /\ response[r].code = calls[r][i].status
      /\ response[r].body = calls[r][i].text

C5_Witness ==
  \E r \in Reqs :
    /\ Issued(r, "pages_enable", 409)
    /\ response[r].kind = "PagesEnableError"
    /\ response[r].body = "already enabled"

\* C6: a pages fetch answered 200 without html_url, or with an empty one, and
\* a pages fetch answered with another status, end the request with the 500
\* PagesFetchError and never with a 200 response
C6_FetchWithoutUrlFails ==
  \A r \in Reqs : \A i \in Idx(r) :
    (/\ calls[r][i].op = "pages_fetch"
     /\ \/ calls[r][i].status = 200 /\ calls[r][i].text \in {NoUrl, ""}
        \/ calls[r][i].status \notin {0, 200}) =>
      /\ Done(r)
      /\ response[r].status = 500
      /\ response[r].kind = "PagesFetchError"

C6_Witness ==
  \E r \in Reqs : \E i \in Idx(r) :
    /\ calls[r][i].op = "pages_fetch"
    /\ calls[r][i].status = 200
    /\ calls[r][i].text = NoUrl
    /\ response[r].kind = "PagesFetchError"

\* the class of the error of the step a request failed at
ClassOfFailure(r) ==
  IF calls[r] = <<>> THEN "ValidationError"
  ELSE LET last == calls[r][Len(calls[r])] IN
    CASE last.op = "get_user" -> "AuthError"
      [] last.op = "get_repo" /\ last.status # 0 -> "RepoAccessError"
      [] last.op \in {"get_contents", "update_file"} -> "PublishError"
      [] last.op = "pages_enable" /\ last.status # 0 -> "PagesEnableError"
      [] last.op = "pages_fetch" /\ last.status # 0 -> "PagesFetchError"
      [] OTHER -> "Unhandled"

StatusSet == {200, 400, 401, 500}

Taxonomy ==
  {"ValidationError", "AuthError", "RepoAccessError", "PublishError", "PagesEnableError",
   "PagesFetchError"}

\* the call failed: it raised, or was answered with a status that is neither
\* the step's success nor the not-found signal of a lookup
Failed(c) ==
  CASE c.op \in {"get_repo", "get_contents"} -> c.status \notin {200, 404}
    [] OTHER -> ~StepOk(c)

\* C8: a failed call is the last call of its request, and the request ends
\* with a structured error response of the taxonomy
C8_FailureAbortsStructured ==
  \A r \in Reqs : \A i \in Idx(r) :
    Failed(calls[r][i]) =>
      /\ i = Len(calls[r])
      /\ Done(r)
      /\ response[r].kind \in Taxonomy

\* C9: of two requests that read the same revision identifier of index.html
\* of the same repository at most one has its update_file accepted; a request
\* whose update_file was answered 409 issues no further call and ends with the
\* 500 PublishError, so no request with a rejected update reports success
C9_StaleUpdateRejected ==
  /\ \A r1, r2 \in Reqs : \A i1 \in Idx(r1), i2 \in Idx(r2) :
       (/\ r1 # r2
        /\ calls[r1][i1].op = "get_contents" /\ calls[r2][i2].op = "get_contents"
        /\ calls[r1][i1].repo = calls[r2][i2].repo
        /\ calls[r1][i1].sha > 0
        /\ calls[r1][i1].sha = calls[r2][i2].sha)
         => ~(Issued(r1, "update_file", 200) /\ Issued(r2, "update_file", 200))
  /\ \A r \in Reqs : \A i \in Idx(r) :
       (calls[r][i].op = "update_file" /\ calls[r][i].status = 409) =>
         /\ i = Len(calls[r])
         /\ Done(r)
         /\ response[r].status = 500
         /\ response[r].kind = "PublishError"

C9_Witness ==
  \E r1, r2 \in Reqs :
    /\ r1 # r2
    /\ \E i1 \in Idx(r1), i2 \in Idx(r2) :
         /\ calls[r1][i1].op = "get_contents" /\ calls[r2][i2].op = "get_contents"
         /\ calls[r1][i1].sha > 0
         /\ calls[r1][i1].sha = calls[r2][i2].sha
    /\ Issued(r1, "update_file", 200)
    /\ Issued(r2, "update_file", 409)
    /\ response[r2].kind = "PublishError"

\* C10: a request issues at most one file write, and a create_file only after
\* its own index.html lookup was answered not-found
C10_OneFileWrite ==
  \A r \in Reqs :
    /\ Count(r, "update_file") + Count(r, "create_file") <= 1
    /\ Count(r, "create_file") > 0 => Issued(r, "get_contents", 404)
====
